---- MODULE Spec2Model ----
(***************************************************************************)
(* Model of the three command-line tools of analysis_genomic_data:         *)
(*   scripts/pause_file_with_fork_coordinates.py  (specification Spec)     *)
(*   scripts/count_events_in_windows.py           (specification SpecWin)  *)
(*   scripts/bed_and_fasta_to_genbank.py          (specification SpecGb)   *)
(* Each tool is a single-threaded batch run; its loops are modelled one    *)
(* iteration per step where a property speaks about the order of steps.    *)
(***************************************************************************)
EXTENDS Integers, Sequences, FiniteSets, TLC

VARIABLES
  \* pause_file_with_fork_coordinates.py : main()
  pc,          \* position in main(): assign, track, synth, concat, done, failed
  i,           \* index of the next pause row handed to assign_fork by apply()
  pause,       \* the pause table (mutated row by row)
  lf, rf,      \* the loaded fork tables
  paused,      \* matched pause rows (keep = TRUE)
  used_forks,  \* set of (readID, fork_start, fork_end, direction)
  non_paused,  \* rows synthesized by add_non_paused_forks
  output,      \* rows written to the output file
  \* count_events_in_windows.py : sliding_window()
  w_pc, contig_sizes, events, window_size, slide_size, start, out,
  \* bed_and_fasta_to_genbank.py : bed_to_genbank()
  g_pc, records, region, bed, line, features, stderr, written

avars == <<pc, i, pause, lf, rf, paused, used_forks, non_paused, output>>
wvars == <<w_pc, contig_sizes, events, window_size, slide_size, start, out>>
gvars == <<g_pc, records, region, bed, line, features, stderr, written>>
vars == <<avars, wvars, gvars>>

(***************************************************************************)
(* Bounds of the model.                                                    *)
(***************************************************************************)
MaxCoord == 1        \* fork and pause coordinates range over 0..MaxCoord
MaxRows == 4         \* total number of rows of the pause, left and right files

Coords == 0 .. MaxCoord
Reads == {"readA", "readB"}

\* The sentinel the script writes into not-yet-assigned columns.  In the
\* integer-valued fork columns it is modelled by a number outside Coords.
NA == "NA"
NAc == -1

(***************************************************************************)
(* Formatting of a column value by an f-string.                            *)
(***************************************************************************)
Digits == <<"0", "1", "2", "3", "4", "5", "6", "7", "8", "9">>

RECURSIVE Dec(_)
Dec(n) == IF n < 10 THEN Digits[n + 1] ELSE Dec(n \div 10) \o Digits[(n % 10) + 1]

Fmt(v) == IF v = NAc THEN NA ELSE Dec(v)

(***************************************************************************)
(* Input files.  Every read has one alignment (contig, extent, strand).    *)
(* Forks of readA are all intervals start <= end over Coords; readB, the   *)
(* second read, has the one fork that spans Coords and pauses at 0.        *)
(***************************************************************************)
ContigOf == [r \in Reads |-> IF r = "readA" THEN "chr1" ELSE "chr2"]
StrandCodeOf == [r \in Reads |-> IF r = "readA" THEN "fwd" ELSE "rev"]

ForkLine(r, s, e) ==
  [contig |-> ContigOf[r], fork_start |-> s, fork_end |-> e, readID |-> r,
   contig2 |-> ContigOf[r], start_read |-> 0, end_read |-> MaxCoord,
   strand |-> StrandCodeOf[r]]

ForkLines == {ForkLine("readA", iv[1], iv[2]) :
                iv \in {c \in Coords \X Coords : c[1] <= c[2]}}
             \cup {ForkLine("readB", 0, MaxCoord)}

\* A pause-file row: detectIndex (underscore-separated fields) and pauseSite.
PauseLine(r, ps) ==
  [detectIndex |-> <<r, ContigOf[r], Dec(0), Dec(MaxCoord),
                     IF StrandCodeOf[r] = "fwd" THEN "+" ELSE "-", NA, NA, NA>>,
   pauseSite |-> ps]

PauseLines == {PauseLine("readA", ps) : ps \in Coords} \cup {PauseLine("readB", 0)}

(***************************************************************************)
(* load_fork_file: names the columns after the fork type, maps the strand  *)
(* code and tags every row with the table's direction.                     *)
(***************************************************************************)
StrandMap(code) == IF code = "fwd" THEN "+" ELSE IF code = "rev" THEN "-" ELSE "nan"

load_lf(lines) ==
  [k \in 1 .. Len(lines) |->
     [contig |-> lines[k].contig, lf_start |-> lines[k].fork_start,
      lf_end |-> lines[k].fork_end, readID |-> lines[k].readID,
      contig2 |-> lines[k].contig2, start_read |-> lines[k].start_read,
      end_read |-> lines[k].end_read, strand |-> StrandMap(lines[k].strand),
      direction |-> "L"]]

load_rf(lines) ==
  [k \in 1 .. Len(lines) |->
     [contig |-> lines[k].contig, rf_start |-> lines[k].fork_start,
      rf_end |-> lines[k].fork_end, readID |-> lines[k].readID,
      contig2 |-> lines[k].contig2, start_read |-> lines[k].start_read,
      end_read |-> lines[k].end_read, strand |-> StrandMap(lines[k].strand),
      direction |-> "R"]]

(***************************************************************************)
(* main, lines 144-162: the pause table with readID taken from detectIndex *)
(* and the augmentation columns set to the sentinel.  A row that is never  *)
(* matched has no contig value (the column is only created by a match).    *)
(***************************************************************************)
load_pause(lines) ==
  [k \in 1 .. Len(lines) |->
     [detectIndex |-> lines[k].detectIndex, pauseSite |-> lines[k].pauseSite,
      readID |-> lines[k].detectIndex[1],
      left_fork_start |-> NAc, left_fork_end |-> NAc,
      right_fork_start |-> NAc, right_fork_end |-> NAc,
      direction |-> NA, strand |-> NA, alignLen |-> NAc,
      start_read |-> NAc, end_read |-> NAc, contig |-> "nan"]]

(***************************************************************************)
(* assign_fork                                                             *)
(***************************************************************************)
\* Variant: overlap exclusive at the interval's ends.
match_L_strict(lf_df, readID, ps) ==
  SelectSeq(lf_df, LAMBDA f : f.readID = readID /\ f.lf_start < ps /\ f.lf_end > ps)

match_L(lf_df, readID, ps) ==
  SelectSeq(lf_df, LAMBDA f : f.readID = readID /\ f.lf_start <= ps /\ f.lf_end >= ps)

match_R(rf_df, readID, ps) ==
  SelectSeq(rf_df, LAMBDA f : f.readID = readID /\ f.rf_start <= ps /\ f.rf_end >= ps)

\* Variant: the last overlapping row instead of the first.
iloc_last(m) == m[Len(m)]

iloc0(m) == m[1]

take_L(row, r) ==
  [row EXCEPT !.direction = "L", !.left_fork_start = r.lf_start,
              !.left_fork_end = r.lf_end, !.strand = r.strand,
              !.alignLen = r.end_read, !.contig = r.contig,
              !.start_read = r.start_read, !.end_read = r.end_read]

take_R(row, r) ==
  [row EXCEPT !.direction = "R", !.right_fork_start = r.rf_start,
              !.right_fork_end = r.rf_end, !.strand = r.strand,
              !.alignLen = r.end_read, !.contig = r.contig,
              !.start_read = r.start_read, !.end_read = r.end_read]

\* Variant: the right-fork table consulted first.
assign_fork_right_first(row, lf_df, rf_df) ==
  LET ps == row.pauseSite
      readID == row.readID
      mL == match_L(lf_df, readID, ps)
      mR == match_R(rf_df, readID, ps)
  IN  IF mR # <<>> THEN take_R(row, iloc0(mR))
      ELSE IF mL # <<>> THEN take_L(row, iloc0(mL))
      ELSE row

assign_fork(row, lf_df, rf_df) ==
  LET ps == row.pauseSite
      readID == row.readID
      mL == match_L(lf_df, readID, ps)
      mR == match_R(rf_df, readID, ps)
  IN  IF mL # <<>> THEN take_L(row, iloc0(mL))
      ELSE IF mR # <<>> THEN take_R(row, iloc0(mR))
      ELSE row

(***************************************************************************)
(* construct_detect_index                                                  *)
(***************************************************************************)
construct_detect_index(row) ==
  LET fork_start == IF row.direction = "L" THEN row.left_fork_start
                                           ELSE row.right_fork_start
      fork_end == IF row.direction = "L" THEN row.left_fork_end
                                         ELSE row.right_fork_end
  IN  <<row.readID, row.contig, Fmt(row.start_read), Fmt(row.end_read),
        row.strand, row.direction, Fmt(fork_start), Fmt(fork_end)>>

(***************************************************************************)
(* main, lines 167-169: the matched rows, with the identifier rebuilt.     *)
(***************************************************************************)
\* Variant: unmatched rows are not filtered out.
select_all(tbl) == tbl

select_paused(tbl) == SelectSeq(tbl, LAMBDA r : r.direction # NA)

mark_paused(tbl) ==
  [k \in 1 .. Len(tbl) |->
     [keep |-> TRUE, detectIndex |-> construct_detect_index(tbl[k]),
      pauseSite |-> tbl[k].pauseSite, readID |-> tbl[k].readID,
      left_fork_start |-> tbl[k].left_fork_start,
      left_fork_end |-> tbl[k].left_fork_end,
      right_fork_start |-> tbl[k].right_fork_start,
      right_fork_end |-> tbl[k].right_fork_end,
      direction |-> tbl[k].direction, strand |-> tbl[k].strand,
      alignLen |-> tbl[k].alignLen, start_read |-> tbl[k].start_read,
      end_read |-> tbl[k].end_read, contig |-> tbl[k].contig]]

(***************************************************************************)
(* main, lines 172-177: the used-fork keys of the matched rows.            *)
(***************************************************************************)
used_key(r) ==
  IF r.direction = "L" THEN <<r.readID, r.left_fork_start, r.left_fork_end, "L">>
                       ELSE <<r.readID, r.right_fork_start, r.right_fork_end, "R">>

\* Variant: only left-fork keys are recorded.
track_used_left_only(tbl) ==
  {used_key(tbl[k]) : k \in {n \in 1 .. Len(tbl) : tbl[n].direction = "L"}}

track_used(tbl) == {used_key(tbl[k]) : k \in 1 .. Len(tbl)}

(***************************************************************************)
(* add_non_paused_forks: one row per fork row whose key is not used, left  *)
(* table first.  Columns of the pause file that a fork does not fill keep  *)
(* the sentinel.                                                           *)
(***************************************************************************)
synth_L(r) ==
  LET row == [keep |-> FALSE, detectIndex |-> <<>>, pauseSite |-> NAc,
              readID |-> r.readID,
              left_fork_start |-> r.lf_start, left_fork_end |-> r.lf_end,
              right_fork_start |-> NAc, right_fork_end |-> NAc,
              direction |-> "L", strand |-> r.strand, alignLen |-> r.end_read,
              start_read |-> r.start_read, end_read |-> r.end_read,
              contig |-> r.contig]
  IN  [row EXCEPT !.detectIndex = construct_detect_index(row)]

synth_R(r) ==
  LET row == [keep |-> FALSE, detectIndex |-> <<>>, pauseSite |-> NAc,
              readID |-> r.readID,
              left_fork_start |-> NAc, left_fork_end |-> NAc,
              right_fork_start |-> r.rf_start, right_fork_end |-> r.rf_end,
              direction |-> "R", strand |-> r.strand, alignLen |-> r.end_read,
              start_read |-> r.start_read, end_read |-> r.end_read,
              contig |-> r.contig]
  IN  [row EXCEPT !.detectIndex = construct_detect_index(row)]

key_L(r) == <<r.readID, r.lf_start, r.lf_end, "L">>
key_R(r) == <<r.readID, r.rf_start, r.rf_end, "R">>

rows_L(df) == [k \in 1 .. Len(df) |-> synth_L(df[k])]
rows_R(df) == [k \in 1 .. Len(df) |-> synth_R(df[k])]

\* Variant: the used-key set is ignored.
add_all_forks(lf_df, rf_df, used) ==
  rows_L(lf_df) \o rows_R(rf_df)

add_non_paused_forks(lf_df, rf_df, used) ==
  rows_L(SelectSeq(lf_df, LAMBDA r : key_L(r) \notin used))
  \o rows_R(SelectSeq(rf_df, LAMBDA r : key_R(r) \notin used))

\* drop(columns=["readID"]) at lines 179 and 136: the rows as written out.
drop_readID(tbl) ==
  [k \in 1 .. Len(tbl) |->
     [keep |-> tbl[k].keep, detectIndex |-> tbl[k].detectIndex,
      pauseSite |-> tbl[k].pauseSite,
      left_fork_start |-> tbl[k].left_fork_start,
      left_fork_end |-> tbl[k].left_fork_end,
      right_fork_start |-> tbl[k].right_fork_start,
      right_fork_end |-> tbl[k].right_fork_end,
      direction |-> tbl[k].direction, strand |-> tbl[k].strand,
      alignLen |-> tbl[k].alignLen, start_read |-> tbl[k].start_read,
      end_read |-> tbl[k].end_read, contig |-> tbl[k].contig]]

\* Variant: synthesized rows first.
concat_swapped(a, b) == b \o a

\* pd.concat([paused, non_paused], ignore_index=True)
concat(a, b) == a \o b

(***************************************************************************)
(* The run of main().                                                      *)
(***************************************************************************)
WIdle ==
  /\ w_pc = "idle" /\ contig_sizes = <<>> /\ events = <<>> /\ window_size = 0
  /\ slide_size = 0 /\ start = 0 /\ out = <<>>

GIdle ==
  /\ g_pc = "idle" /\ records = {} /\ region = <<>> /\ bed = <<>> /\ line = 0
  /\ features = <<>> /\ stderr = <<>> /\ written = FALSE

AIdle ==
  /\ pc = "idle" /\ i = 0 /\ pause = <<>> /\ lf = <<>> /\ rf = <<>>
  /\ paused = <<>> /\ used_forks = {} /\ non_paused = <<>> /\ output = <<>>

Init ==
  /\ \E np \in 0 .. MaxRows, nl \in 0 .. MaxRows, nr \in 0 .. MaxRows :
       /\ np + nl + nr <= MaxRows
       /\ \E p \in [1 .. np -> PauseLines],
             l \in [1 .. nl -> ForkLines],
             r \in [1 .. nr -> ForkLines] :
            /\ pause = load_pause(p)
            /\ lf = load_lf(l)
            /\ rf = load_rf(r)
  /\ pc = "assign" /\ i = 1
  /\ paused = <<>> /\ used_forks = {} /\ non_paused = <<>> /\ output = <<>>
  /\ WIdle /\ GIdle

\* line 165: pause.apply(assign_fork, axis=1), one row per step
AssignRow ==
  /\ pc = "assign" /\ i <= Len(pause)
  /\ pause' = [pause EXCEPT ![i] = assign_fork(pause[i], lf, rf)]
  /\ i' = i + 1
  /\ UNCHANGED <<pc, lf, rf, paused, used_forks, non_paused, output, wvars, gvars>>

\* lines 167-169, at least one matched row
SelectPaused ==
  /\ pc = "assign" /\ i > Len(pause)
  /\ select_paused(pause) # <<>>
  /\ paused' = mark_paused(select_paused(pause))
  /\ pc' = "track"
  /\ UNCHANGED <<i, pause, lf, rf, used_forks, non_paused, output, wvars, gvars>>

\* lines 167-169, no matched row: DataFrame.apply on the empty frame does not
\* call construct_detect_index on any row; it probes it on a dummy row, and
\* what it returns (an empty column, or a copy of the frame, whose assignment
\* to the single column detectIndex raises ValueError) depends on the columns
\* of the pause file and on the pandas release.  Both outcomes are modelled.
SelectNone ==
  /\ pc = "assign" /\ i > Len(pause)
  /\ select_paused(pause) = <<>>
  /\ paused' = <<>>
  /\ pc' \in {"track", "failed"}
  /\ UNCHANGED <<i, pause, lf, rf, used_forks, non_paused, output, wvars, gvars>>

\* lines 172-179
TrackUsed ==
  /\ pc = "track"
  /\ used_forks' = track_used(paused)
  /\ paused' = drop_readID(paused)
  /\ pc' = "synth"
  /\ UNCHANGED <<i, pause, lf, rf, non_paused, output, wvars, gvars>>

\* line 182; with no row to synthesize, pd.DataFrame([]) has no readID column
\* and line 136 (drop) raises KeyError.
AddNonPaused ==
  /\ pc = "synth"
  /\ LET rows == add_non_paused_forks(lf, rf, used_forks)
     IN  IF rows = <<>>
           THEN pc' = "failed" /\ non_paused' = non_paused
           ELSE pc' = "concat" /\ non_paused' = drop_readID(rows)
  /\ UNCHANGED <<i, pause, lf, rf, paused, used_forks, output, wvars, gvars>>

\* lines 184-188
Concat ==
  /\ pc = "concat"
  /\ output' = concat(paused, non_paused)
  /\ pc' = "done"
  /\ UNCHANGED <<i, pause, lf, rf, paused, used_forks, non_paused, wvars, gvars>>

Next == AssignRow \/ SelectPaused \/ SelectNone \/ TrackUsed \/ AddNonPaused \/ Concat

Spec == Init /\ [][Next]_vars

(***************************************************************************)
(* count_events_in_windows.py                                              *)
(***************************************************************************)
MaxSize == 5         \* contig length and event positions range over 0..MaxSize
MaxEvents == 3       \* data lines of the indexed contig in the events file
MaxWin == 2          \* window_size and slide_size range over 0..MaxWin

\* A line of the events file.  kind tells what the parser sees in it:
\*   "blank"  nothing but white space
\*   "short"  fewer than two tab-separated fields
\*   "text"   two fields, the second not an integer (a column-title line)
\*   "data"   contig and integer position
\* contig and position are read only on a data line.
EventLine(kind, contig, position) ==
  [kind |-> kind, contig |-> contig, position |-> position]

\* The events file: an optional title line, a blank line, the events of the
\* indexed contig chr1 in file order, a short line, a line whose position is
\* not a number, and one event of a contig that the index does not list.
EventLines(ps, titled) ==
  (IF titled THEN <<EventLine("text", "contig", 0)>> ELSE <<>>)
  \o <<EventLine("blank", "", 0)>>
  \o [k \in 1 .. Len(ps) |-> EventLine("data", "chr1", ps[k])]
  \o <<EventLine("short", "chr1", 0), EventLine("text", "chr1", 0),
       EventLine("data", "chrX", 0)>>

\* Variant: the first non-blank line is not set aside as the header.
skip_header_none(lines) == lines

\* parse_events, lines 45-47: the first non-blank line is the header and is
\* discarded, whatever it holds.
skip_header(lines) == IF lines = <<>> THEN <<>> ELSE Tail(lines)

\* parse_events: blank lines are skipped (line 42), then the header (45-47),
\* then lines with fewer than two fields (50) or a non-integer position (57);
\* the rest is grouped by contig, positions in file order.
parse_events(lines) ==
  LET nonblank == SelectSeq(lines, LAMBDA l : l.kind # "blank")
      body == skip_header(nonblank)
      valid == SelectSeq(body, LAMBDA l : l.kind = "data")
  IN  [c \in {valid[k].contig : k \in 1 .. Len(valid)} |->
         LET own == SelectSeq(valid, LAMBDA l : l.contig = c)
         IN  [k \in 1 .. Len(own) |-> own[k].position]]

\* events.get(contig, [])
events_get(ev, contig) == IF contig \in DOMAIN ev THEN ev[contig] ELSE <<>>

\* Variant: the window's end counted in.
RECURSIVE count_events_closed(_, _, _, _)
count_events_closed(contig, s, e, event_positions) ==
  IF event_positions = <<>> THEN 0
  ELSE (IF s <= Head(event_positions) /\ Head(event_positions) <= e THEN 1 ELSE 0)
       + count_events_closed(contig, s, e, Tail(event_positions))

RECURSIVE count_events_in_window(_, _, _, _)
count_events_in_window(contig, s, e, event_positions) ==
  IF event_positions = <<>> THEN 0
  ELSE (IF s <= Head(event_positions) /\ Head(event_positions) < e THEN 1 ELSE 0)
       + count_events_in_window(contig, s, e, Tail(event_positions))

\* line 91
window_end(s, size) == IF s + window_size <= size THEN s + window_size ELSE size

InitWin ==
  /\ w_pc = "check"
  /\ \E size \in 0 .. MaxSize : contig_sizes = [c \in {"chr1"} |-> size]
  /\ \E n \in 0 .. MaxEvents : \E ps \in [1 .. n -> 0 .. MaxSize] :
       \E titled \in BOOLEAN : events = parse_events(EventLines(ps, titled))
  /\ window_size \in 0 .. MaxWin
  /\ slide_size \in 0 .. MaxWin
  /\ start = 0 /\ out = <<>>
  /\ AIdle /\ GIdle

\* __main__, lines 124-126: both sizes must be positive
WinReject ==
  /\ w_pc = "check"
  /\ slide_size <= 0 \/ window_size <= 0
  /\ w_pc' = "exit"
  /\ UNCHANGED <<contig_sizes, events, window_size, slide_size, start, out,
                 avars, gvars>>

WinStart ==
  /\ w_pc = "check"
  /\ ~(slide_size <= 0 \/ window_size <= 0)
  /\ w_pc' = "run"
  /\ UNCHANGED <<contig_sizes, events, window_size, slide_size, start, out,
                 avars, gvars>>

\* sliding_window, lines 90-96: one window of range(0, size, slide_size)
WindowStep ==
  /\ w_pc = "run"
  /\ start < contig_sizes["chr1"]
  /\ LET size == contig_sizes["chr1"]
         end == window_end(start, size)
         event_positions == events_get(events, "chr1")
         event_count == count_events_in_window("chr1", start, end, event_positions)
     IN  out' = Append(out, [contig |-> "chr1", start_window |-> start,
                             end_window |-> end, event_count |-> event_count])
  /\ start' = start + slide_size
  /\ UNCHANGED <<w_pc, contig_sizes, events, window_size, slide_size, avars, gvars>>

WinFinish ==
  /\ w_pc = "run"
  /\ start >= contig_sizes["chr1"]
  /\ w_pc' = "done"
  /\ UNCHANGED <<contig_sizes, events, window_size, slide_size, start, out,
                 avars, gvars>>

NextWin == WinReject \/ WinStart \/ WindowStep \/ WinFinish

SpecWin == InitWin /\ [][NextWin]_vars

(***************************************************************************)
(* bed_and_fasta_to_genbank.py                                             *)
(***************************************************************************)
MaxBed == 2          \* data lines of the BED file

Contigs == {"chrI", "chrII"}

\* A data line of the BED file (the lines after its header line): its
\* tab-separated column count and the first columns.
Spans == {<<0, 0>>, <<1, 2>>}
BedLines ==
  {[ncols |-> n, chrom |-> c, start |-> sp[1], end |-> sp[2]] :
     n \in {5, 6}, c \in Contigs, sp \in Spans}

\* The optional region argument, parsed: <<>> stands for None.
Regions == {<<>>} \cup {<<c, 1, 2>> : c \in Contigs}

\* Variant: the region's contig is not looked up.
region_missing_unchecked(reg, recs) == FALSE

\* lines 51-54
region_missing(reg, recs) == reg # <<>> /\ reg[1] \notin recs

\* line 79
row_missing(l, recs) == l.chrom \notin recs

\* lines 88-90
outside_region(l, reg) ==
  reg # <<>> /\ l.chrom = reg[1] /\ (l.end < reg[2] \/ l.start > reg[3])

InitGb ==
  /\ g_pc = "region"
  /\ records \in SUBSET Contigs \ {{}}
  /\ region \in Regions
  /\ \E n \in 0 .. MaxBed : bed \in [1 .. n -> BedLines]
  /\ line = 1
  /\ features = [c \in records |-> <<>>]
  /\ stderr = <<>>
  /\ written = FALSE
  /\ AIdle /\ WIdle

\* lines 50-57
GbRegion ==
  /\ g_pc = "region"
  /\ IF region_missing(region, records)
       THEN g_pc' = "exit" /\ stderr' = Append(stderr, "not found in FASTA file")
       ELSE g_pc' = "bed" /\ stderr' = stderr
  /\ UNCHANGED <<records, region, bed, line, features, written, avars, wvars>>

\* lines 65-105: one data line of the BED file
GbBedLine ==
  /\ g_pc = "bed"
  /\ line <= Len(bed)
  /\ LET l == bed[line]
     IN  IF l.ncols < 6
           THEN /\ stderr' = Append(stderr, "Skipping malformed line")
                /\ features' = features
         ELSE IF row_missing(l, records)
           THEN /\ stderr' = Append(stderr, "Warning: contig not in FASTA; skipping")
                /\ features' = features
         ELSE IF outside_region(l, region)
           THEN /\ stderr' = stderr
                /\ features' = features
         ELSE /\ stderr' = stderr
              /\ features' = [features EXCEPT ![l.chrom] =
                                Append(@, [start |-> l.start, end |-> l.end])]
  /\ line' = line + 1
  /\ UNCHANGED <<g_pc, records, region, bed, written, avars, wvars>>

\* lines 107-121
GbWrite ==
  /\ g_pc = "bed"
  /\ line > Len(bed)
  /\ written' = TRUE
  /\ g_pc' = "done"
  /\ UNCHANGED <<records, region, bed, line, features, stderr, avars, wvars>>

NextGb == GbRegion \/ GbBedLine \/ GbWrite

SpecGb == InitGb /\ [][NextGb]_vars

(***************************************************************************)
(* Properties of the pause annotator.                                      *)
(* The helpers below restate the inputs' geometry directly on the tables,  *)
(* without the operators that model the script.                            *)
(***************************************************************************)
PauseIdx == 1 .. Len(pause)
LfIdx == 1 .. Len(lf)
RfIdx == 1 .. Len(rf)
OutIdx == 1 .. Len(output)

\* The pause rows apply() has already handed to assign_fork.
Assigned == {k \in PauseIdx : k < i}

CandL(k) == {j \in LfIdx : /\ lf[j].readID = pause[k].readID
                           /\ lf[j].lf_start <= pause[k].pauseSite
                           /\ pause[k].pauseSite <= lf[j].lf_end}
CandR(k) == {j \in RfIdx : /\ rf[j].readID = pause[k].readID
                           /\ rf[j].rf_start <= pause[k].pauseSite
                           /\ pause[k].pauseSite <= rf[j].rf_end}

Min(S) == CHOOSE x \in S : \A y \in S : x <= y

HasL(k, j) ==
  /\ pause[k].direction = "L"
  /\ pause[k].left_fork_start = lf[j].lf_start
  /\ pause[k].left_fork_end = lf[j].lf_end
  /\ pause[k].right_fork_start = NAc /\ pause[k].right_fork_end = NAc

HasR(k, j) ==
  /\ pause[k].direction = "R"
  /\ pause[k].right_fork_start = rf[j].rf_start
  /\ pause[k].right_fork_end = rf[j].rf_end
  /\ pause[k].left_fork_start = NAc /\ pause[k].left_fork_end = NAc

Unset(k) ==
  /\ pause[k].direction = NA
  /\ pause[k].left_fork_start = NAc /\ pause[k].left_fork_end = NAc
  /\ pause[k].right_fork_start = NAc /\ pause[k].right_fork_end = NAc

\* The UsedForkKey of a fork row, of an assigned pause row, of an output row.
LfKey(j) == <<lf[j].readID, lf[j].lf_start, lf[j].lf_end, "L">>
RfKey(j) == <<rf[j].readID, rf[j].rf_start, rf[j].rf_end, "R">>
ForkKeys == {LfKey(j) : j \in LfIdx} \cup {RfKey(j) : j \in RfIdx}
PauseKey(k) ==
  IF pause[k].direction = "L"
    THEN <<pause[k].readID, pause[k].left_fork_start, pause[k].left_fork_end, "L">>
    ELSE <<pause[k].readID, pause[k].right_fork_start, pause[k].right_fork_end, "R">>
OutKey(n) ==
  IF output[n].direction = "L"
    THEN <<output[n].detectIndex[1], output[n].left_fork_start,
           output[n].left_fork_end, "L">>
    ELSE <<output[n].detectIndex[1], output[n].right_fork_start,
           output[n].right_fork_end, "R">>

MatchedPauses == {k \in PauseIdx : pause[k].direction # NA}
ConsumedKeys == {PauseKey(k) : k \in MatchedPauses}
NOut(K, kp) == Cardinality({n \in OutIdx : OutKey(n) = K /\ output[n].keep = kp})
NRows(K) == Cardinality({j \in LfIdx : LfKey(j) = K})
            + Cardinality({j \in RfIdx : RfKey(j) = K})
NPauses(K) == Cardinality({k \in MatchedPauses : PauseKey(k) = K})

\* C1 as stated: once the run is done, every fork row's UsedForkKey is the
\* key of exactly one output record (read on the runs that matched at least
\* one pause record).
C1_ExactlyOnce ==
  (pc = "done" /\ MatchedPauses # {}) =>
    \A K \in ForkKeys : NOut(K, TRUE) + NOut(K, FALSE) = 1

\* C1, amended: once the run is done, every fork row's UsedForkKey is the key
\* of at least one output record and never of both a matched and a
\* synthesized one: a consumed key has one matched record per pause record
\* assigned to it, an unconsumed key one synthesized record per table row
\* that carries it.
C1_AtLeastOnce ==
  pc = "done" =>
    \A K \in ForkKeys :
      /\ NOut(K, TRUE) + NOut(K, FALSE) >= 1
      /\ IF K \in ConsumedKeys
           THEN NOut(K, TRUE) = NPauses(K) /\ NOut(K, FALSE) = 0
           ELSE NOut(K, TRUE) = 0 /\ NOut(K, FALSE) = NRows(K)

\* A finished run whose output holds a key more than once, a consumed fork
\* and an unconsumed one.
C1_Witness ==
  /\ pc = "done"
  /\ \E K \in ForkKeys : NOut(K, TRUE) + NOut(K, FALSE) >= 2
  /\ \E K \in ForkKeys : K \in ConsumedKeys /\ NOut(K, TRUE) >= 1
  /\ \E K \in ForkKeys : K \notin ConsumedKeys /\ NOut(K, FALSE) >= 1

\* C2: a pause record with an overlapping left fork of its read is assigned
\* direction L and a left fork's coordinates (right columns stay unset), also
\* when a right fork overlaps; so direction R implies no left fork overlaps.
C2_LeftPriority ==
  \A k \in Assigned :
    /\ CandL(k) # {} => \E j \in CandL(k) : HasL(k, j)
    /\ pause[k].direction = "R" => CandL(k) = {}

\* A pause record overlapped by a left and by a right fork, assigned L.
C2_Witness ==
  \E k \in Assigned : CandL(k) # {} /\ CandR(k) # {} /\ pause[k].direction = "L"

\* C3: the output has one row per matched pause record plus one row per fork
\* row (of either table) whose key no match consumed.
C3_RowCount ==
  pc = "done" =>
    Len(output) = Cardinality({k \in PauseIdx : CandL(k) \cup CandR(k) # {}})
                  + Cardinality({j \in LfIdx : LfKey(j) \notin ConsumedKeys})
                  + Cardinality({j \in RfIdx : RfKey(j) \notin ConsumedKeys})

\* A finished run with a matched pause record, a consumed and an unconsumed fork.
C3_Witness ==
  /\ pc = "done"
  /\ MatchedPauses # {}
  /\ \E K \in ForkKeys : K \in ConsumedKeys
  /\ \E K \in ForkKeys : K \notin ConsumedKeys
  /\ Len(output) >= 2

\* C4 as stated: one pause record inside the single left fork of its read and
\* no other fork row: the run completes with exactly one output row, direction
\* L, the fork's bounds and the reconstructed identifier.
C4_SingleMatchCompletes ==
  ( /\ pc \in {"done", "failed"}
    /\ Len(pause) = 1 /\ Len(lf) = 1 /\ Len(rf) = 0
    /\ CandL(1) = {1} )
  => /\ pc = "done"
     /\ Len(output) = 1
     /\ output[1].direction = "L"
     /\ output[1].left_fork_start = lf[1].lf_start
     /\ output[1].left_fork_end = lf[1].lf_end
     /\ output[1].detectIndex =
          <<lf[1].readID, lf[1].contig, Dec(lf[1].start_read),
            Dec(lf[1].end_read), lf[1].strand, "L",
            Dec(lf[1].lf_start), Dec(lf[1].lf_end)>>

\* C5: overlap is inclusive at both ends.  A pause site equal to the start or
\* to the end of a fork of its read (a zero-length fork included) is matched,
\* to an interval that contains it; a pause site outside every fork of its
\* read (start-1 and end+1 included) is left unset.
C5_InclusiveBounds ==
  \A k \in Assigned :
    LET ps == pause[k].pauseSite
        onL == {j \in LfIdx : lf[j].readID = pause[k].readID
                               /\ (ps = lf[j].lf_start \/ ps = lf[j].lf_end)}
        onR == {j \in RfIdx : rf[j].readID = pause[k].readID
                               /\ (ps = rf[j].rf_start \/ ps = rf[j].rf_end)}
        offL == \A j \in LfIdx : lf[j].readID = pause[k].readID
                                   => (ps < lf[j].lf_start \/ ps > lf[j].lf_end)
        offR == \A j \in RfIdx : rf[j].readID = pause[k].readID
                                   => (ps < rf[j].rf_start \/ ps > rf[j].rf_end)
    IN  /\ onL # {} => /\ pause[k].direction = "L"
                       /\ pause[k].left_fork_start <= ps
                       /\ ps <= pause[k].left_fork_end
        /\ (onR # {} /\ offL) => /\ pause[k].direction = "R"
                                 /\ pause[k].right_fork_start <= ps
                                 /\ ps <= pause[k].right_fork_end
        /\ (Cardinality(onL) = 1 /\ Cardinality(CandL(k)) = 1)
             => \E j \in onL : HasL(k, j)
        /\ (offL /\ offR) => Unset(k)

\* A pause site on a zero-length fork is matched to it, and a pause site one
\* past the end of the only fork of its read is not matched.
C5_Witness ==
  /\ \E k \in Assigned : \E j \in LfIdx :
       /\ lf[j].lf_start = lf[j].lf_end /\ pause[k].pauseSite = lf[j].lf_start
       /\ HasL(k, j)
  /\ \E k \in Assigned : \E j \in LfIdx :
       /\ lf[j].readID = pause[k].readID
       /\ pause[k].pauseSite = lf[j].lf_end + 1
       /\ Unset(k)

\* C6: with several overlapping rows in a table, the pause record gets the
\* coordinates of the first overlapping row in table order.
C6_FirstInTableOrder ==
  \A k \in Assigned :
    /\ pause[k].direction = "L" => CandL(k) # {} /\ HasL(k, Min(CandL(k)))
    /\ pause[k].direction = "R" => CandR(k) # {} /\ HasR(k, Min(CandR(k)))

\* Two overlapping left rows, the first the wider one: the first is assigned.
C6_Witness ==
  \E k \in Assigned : \E j1, j2 \in CandL(k) :
    /\ j1 < j2 /\ j1 = Min(CandL(k))
    /\ lf[j1].lf_start <= lf[j2].lf_start /\ lf[j2].lf_end < lf[j1].lf_end
    /\ HasL(k, j1) /\ ~HasL(k, j2)

\* C7: every output record has direction L or R and set fork coordinates for
\* that direction; a pause record overlapping no fork of its read stays unset
\* and is not among the matched (keep) records of the output.
C7_OutputDirection ==
  /\ \A k \in Assigned : (CandL(k) \cup CandR(k) = {}) => Unset(k)
  /\ pc = "done" =>
       /\ \A n \in OutIdx :
            /\ output[n].direction \in {"L", "R"}
            /\ output[n].direction = "L" =>
                 output[n].left_fork_start # NAc /\ output[n].left_fork_end # NAc
            /\ output[n].direction = "R" =>
                 output[n].right_fork_start # NAc /\ output[n].right_fork_end # NAc
       /\ Cardinality({n \in OutIdx : output[n].keep})
            = Cardinality({k \in PauseIdx : CandL(k) \cup CandR(k) # {}})

\* A finished run with an unmatched pause record, a matched one and a
\* synthesized record.
C7_Witness ==
  /\ pc = "done"
  /\ MatchedPauses # {}
  /\ \E n \in OutIdx : ~output[n].keep
  /\ \E k \in PauseIdx : CandL(k) \cup CandR(k) = {} /\ Unset(k)
  /\ Len(output) >= 1

\* C10: the output is the matched records in pause-file order followed by the
\* synthesized records, unconsumed left forks in left-table order and then
\* unconsumed right forks in right-table order; the used-key set is filled
\* only after every pause record has been through the matcher.
OrderedMatched(tbl) ==
  \E f \in [1 .. Len(tbl) -> PauseIdx] :
    /\ \A a, b \in 1 .. Len(tbl) : a < b => f[a] < f[b]
    /\ {f[a] : a \in 1 .. Len(tbl)} = MatchedPauses
    /\ \A a \in 1 .. Len(tbl) :
         /\ tbl[a].keep
         /\ tbl[a].pauseSite = pause[f[a]].pauseSite
         /\ tbl[a].detectIndex[1] = pause[f[a]].readID
         /\ tbl[a].direction = pause[f[a]].direction

FreeL == {j \in LfIdx : LfKey(j) \notin ConsumedKeys}
FreeR == {j \in RfIdx : RfKey(j) \notin ConsumedKeys}

\* The n-th smallest element of a set of indices.
Nth(S, n) == CHOOSE x \in S : Cardinality({y \in S : y < x}) = n - 1

C10_Order ==
  /\ used_forks # {} => pc \notin {"assign", "track"} /\ i > Len(pause)
  /\ pc \in {"track", "synth", "concat", "done"} => OrderedMatched(paused)
  /\ pc = "done" =>
       LET m == Cardinality(MatchedPauses)
           nl == Cardinality(FreeL)
           nr == Cardinality(FreeR)
       IN  /\ Len(output) = m + nl + nr
           /\ OrderedMatched(SubSeq(output, 1, m))
           /\ \A a \in 1 .. nl :
                /\ ~output[m + a].keep
                /\ OutKey(m + a) = LfKey(Nth(FreeL, a))
           /\ \A a \in 1 .. nr :
                /\ ~output[m + nl + a].keep
                /\ OutKey(m + nl + a) = RfKey(Nth(FreeR, a))

\* A finished run whose output is a matched record, then a synthesized left
\* fork, then a synthesized right fork.
C10_Witness ==
  /\ pc = "done" /\ Len(output) = 3
  /\ output[1].keep
  /\ ~output[2].keep /\ output[2].direction = "L"
  /\ ~output[3].keep /\ output[3].direction = "R"

(***************************************************************************)
(* Properties of the sliding-window counter.                               *)
(***************************************************************************)
WinSize == contig_sizes["chr1"]
Chr1Events == IF "chr1" \in DOMAIN events THEN events["chr1"] ELSE <<>>

\* C8: the windows are [start, min(start + window_size, size)) for start = 0,
\* slide_size, 2*slide_size, ... < size; a window's count is the number of the
\* contig's events e with start <= e < end; with slide_size = window_size
\* every event in [0, size) lies in exactly one window.
C8_Windows ==
  /\ w_pc \in {"run", "done"} =>
       \A n \in 1 .. Len(out) :
         /\ out[n].contig = "chr1"
         /\ out[n].start_window = (n - 1) * slide_size
         /\ out[n].start_window < WinSize
         /\ out[n].end_window =
              IF out[n].start_window + window_size < WinSize
                THEN out[n].start_window + window_size ELSE WinSize
         /\ out[n].event_count =
              Cardinality({k \in 1 .. Len(Chr1Events) :
                             /\ out[n].start_window <= Chr1Events[k]
                             /\ Chr1Events[k] < out[n].end_window})
  /\ w_pc = "done" =>
       /\ Len(out) * slide_size >= WinSize
       /\ (Len(out) - 1) * slide_size < WinSize \/ Len(out) = 0
       /\ slide_size = window_size =>
            \A k \in 1 .. Len(Chr1Events) :
              (0 <= Chr1Events[k] /\ Chr1Events[k] < WinSize) =>
                Cardinality({n \in 1 .. Len(out) :
                               /\ out[n].start_window <= Chr1Events[k]
                               /\ Chr1Events[k] < out[n].end_window}) = 1

\* Three windows of size 2 over a contig of length 5, the last one cut short,
\* with counts 1, 2 and 0 or 1.
C8_Witness ==
  /\ w_pc = "done" /\ window_size = 2 /\ slide_size = 2 /\ WinSize = 5
  /\ Len(out) = 3
  /\ out[1].event_count = 1 /\ out[2].event_count = 2
  /\ out[3].start_window = 4 /\ out[3].end_window = 5

(***************************************************************************)
(* Properties of the FASTA/BED converter.                                  *)
(***************************************************************************)
\* The well-formed data lines read so far that name a contig not in the FASTA.
MissingRows == {k \in 1 .. Len(bed) : k < line /\ bed[k].ncols >= 6
                                        /\ bed[k].chrom \notin records}
RegionMissing == region # <<>> /\ region[1] \notin records

\* C9 as stated: a run that met a missing contig, named by the region or by
\* a BED data row, ends aborted with no output written.
C9_MissingContigFatal ==
  (g_pc \in {"done", "exit"} /\ (RegionMissing \/ MissingRows # {}))
    => (g_pc = "exit" /\ ~written)

\* C9, amended: a missing contig named by the region argument aborts the run
\* before any BED line is read and no output is written; a BED data row that
\* names a missing contig is skipped with one warning each, adds no feature,
\* and the run goes on to write its output.
C9_RegionFatalRowSkipped ==
  /\ RegionMissing => g_pc \in {"region", "exit"} /\ line = 1 /\ ~written
  /\ g_pc = "exit" => RegionMissing
  /\ g_pc \in {"bed", "done"} =>
       /\ Cardinality({m \in 1 .. Len(stderr) :
                         stderr[m] = "Warning: contig not in FASTA; skipping"})
            = Cardinality(MissingRows)
       /\ DOMAIN features = records
  /\ g_pc = "done" => written /\ line = Len(bed) + 1

\* A finished run that skipped a BED row of a missing contig and wrote output.
C9_Witness ==
  /\ g_pc = "done" /\ written /\ MissingRows # {}
  /\ \E m \in 1 .. Len(stderr) : stderr[m] = "Warning: contig not in FASTA; skipping"

====
